---- MODULE Spec2Model ----
(***************************************************************************)
(* Model of src/data/sessions/session_deduplicator.py (VendaBoost).        *)
(*                                                                         *)
(* Strings are sequences of symbols.  A symbol is one character:           *)
(* an ASCII character stands for itself, "NUL" is U+0000, "U+00E9",        *)
(* "U+20AC" and "U+1F600" are characters of two, three and four UTF-8      *)
(* bytes, and "U+D800" is a lone surrogate, which json.load makes of the   *)
(* escape \ud800 and which has no UTF-8 encoding.  The symbols "T1", "T2", *)
(* "T3" abbreviate the 19 characters "1970-01-01T00:00:01", "...:02",      *)
(* "...:03" wherever they stand.  A timestamp is spelled out character by  *)
(* character where the code counts characters ([:6]) and where it is       *)
(* parsed: datetime.fromisoformat is modelled after its C implementation   *)
(* in CPython 3.11, which reads the UTF-8 bytes of the string as a C       *)
(* string that a NUL byte ends, with the dates YYYY-MM-DD, YYYYMMDD and    *)
(* the ISO week dates, any separator, times with or without ':',           *)
(* fractions and UTC offsets.  The values of a JSON document are strings,  *)
(* numbers and null.                                                       *)
(* File modification times are whole seconds since the epoch and the       *)
(* local time zone is UTC, so fromtimestamp(m) is the naive wall clock     *)
(* time 1970-01-01T00:00:00 + m seconds.                                   *)
(***************************************************************************)
EXTENDS Integers, Sequences, FiniteSets, TLC

VARIABLES
    files,      \* the directory: file name -> [content, mtime]
    dirExists,  \* whether sessions_dir exists
    order,      \* the order in which the directory lists its entries: any order,
                \* the same from one scan to the next
    locked,     \* names whose unlink() raises (e.g. PermissionError)
    reports,    \* one record per scan_and_deduplicate call, oldest first
    info,       \* last value returned by a direct get_session_info call
    mode,       \* "once" | "periodic" (main) | "api" (run_periodic_check called directly)
    interval,   \* --interval / interval_minutes
    pc,         \* position of the single thread of control
    running,    \* SessionDeduplicator.running
    i,          \* index of the for loop of run_periodic_check
    sleeps,     \* time.sleep(1) calls since the last scan started
    signalled,  \* pc at which SIGINT/SIGTERM was handled by signal_handler, or "no"
    finalLogged,\* "Deduplicador finalizado." was logged
    lateScans   \* calls of scan_and_deduplicate made while running was false

vars == <<files, dirExists, order, locked, reports, info, mode, interval, pc, running,
          i, sleeps, signalled, finalLogged, lateScans>>

(***************************************************************************)
(* Bounds of the model.                                                    *)
(***************************************************************************)
MaxScans == 2
MaxInterval == 1

(***************************************************************************)
(* Generic helpers on sequences of symbols (Python str operations).        *)
(***************************************************************************)
Min(a, b) == IF a <= b THEN a ELSE b

\* the element of a one-element set: Only({F(x) : x \in {e}}) is F(e) with e
\* evaluated once
Only(S) == CHOOSE x \in S : TRUE

Contains(s, c) == \E k \in 1..Len(s) : s[k] = c

Count(s, c) == Cardinality({k \in 1..Len(s) : s[k] = c})

IndexOf(s, c) == CHOOSE k \in 1..Len(s) : s[k] = c /\ \A j \in 1..(k-1) : s[j] # c

Take(s, n) == SubSeq(s, 1, Min(n, Len(s)))

Drop(s, n) == SubSeq(s, n + 1, Len(s))

RECURSIVE RStrip(_, _)
RStrip(s, c) ==
    IF s # <<>> /\ s[Len(s)] = c THEN RStrip(SubSeq(s, 1, Len(s) - 1), c) ELSE s

\* str.replace(c, r): every c, from the first on, gives way to r
RECURSIVE Replace(_, _, _)
Replace(s, c, r) ==
    IF ~Contains(s, c) THEN s
    ELSE Take(s, IndexOf(s, c) - 1) \o r \o Replace(Drop(s, IndexOf(s, c)), c, r)

(***************************************************************************)
(* JSON values and Python truthiness.                                      *)
(***************************************************************************)
Absent == [t |-> "absent", s |-> <<>>, n |-> 0]
Null == [t |-> "null", s |-> <<>>, n |-> 0]
Str(s) == [t |-> "str", s |-> s, n |-> 0]
Num(n) == [t |-> "num", s |-> <<>>, n |-> n]

IdFields == <<"activeSessionId", "sessionId", "id", "accountId">>
TsFields == <<"updatedAt", "timestamp", "createdAt">>
FieldNames == {"activeSessionId", "sessionId", "id", "accountId",
               "updatedAt", "timestamp", "createdAt"}

\* dict.get(key): the value, or None when the key is missing
Get(data, key) == IF data[key].t = "absent" THEN Null ELSE data[key]

\* bool(v) for the JSON values above
Truthy(v) == (v.t = "str" /\ v.s # <<>>) \/ (v.t = "num" /\ v.n # 0)

\* Python's  a or b
PyOr(a, b) == IF Truthy(a) THEN a ELSE b

(***************************************************************************)
(* datetime values: None, naive (wall clock) or aware (UTC instant), as    *)
(* days since 1970-01-01, seconds of the day and microseconds of the       *)
(* second.                                                                 *)
(***************************************************************************)
SecondsPerDay == 86400
MicrosPerSecond == 1000000

NoTime == [t |-> "none", d |-> 0, s |-> 0, us |-> 0]

\* the datetime of kind t that lies s seconds and us microseconds after
\* midnight of day d, each field brought into its range
DateTime(t, d, s, us) ==
    [t |-> t,
     d |-> d + ((s + (us \div MicrosPerSecond)) \div SecondsPerDay),
     s |-> (s + (us \div MicrosPerSecond)) % SecondsPerDay,
     us |-> us % MicrosPerSecond]

\* s seconds and us microseconds after 1970-01-01T00:00:00
Naive(s, us) == DateTime("naive", 0, s, us)
Aware(s, us) == DateTime("aware", 0, s, us)

\* a > b for two datetimes of the same kind
Later(a, b) ==
    \/ a.d > b.d
    \/ a.d = b.d /\ (a.s > b.s \/ (a.s = b.s /\ a.us > b.us))

DateTimes == {"T1", "T2", "T3"}
SecondsDigit(d) == CASE d = "T1" -> "1" [] d = "T2" -> "2" [] d = "T3" -> "3"

\* the characters a symbol stands for
Spelled(c) ==
    IF c \in DateTimes
    THEN <<"1", "9", "7", "0", "-", "0", "1", "-", "0", "1", "T",
           "0", "0", ":", "0", "0", ":", "0", SecondsDigit(c)>>
    ELSE <<c>>

\* a string character by character
RECURSIVE Chars(_)
Chars(s) == IF s = <<>> THEN <<>> ELSE Spelled(Head(s)) \o Chars(Tail(s))

Digits == {"0", "1", "2", "3", "4", "5", "6", "7", "8", "9"}
DigitVal(c) == CASE c = "0" -> 0 [] c = "1" -> 1 [] c = "2" -> 2 [] c = "3" -> 3
                 [] c = "4" -> 4 [] c = "5" -> 5 [] c = "6" -> 6 [] c = "7" -> 7
                 [] c = "8" -> 8 [] c = "9" -> 9

\* the UTF-8 bytes of the characters that are not ASCII; a byte of an ASCII
\* character is written as the character
Surrogates == {"U+D800"}
Utf8Bytes(c) ==
    CASE c = "U+00E9" -> <<"0xC3", "0xA9">>
      [] c = "U+20AC" -> <<"0xE2", "0x82", "0xAC">>
      [] c = "U+1F600" -> <<"0xF0", "0x9F", "0x98", "0x80">>
      [] OTHER -> <<c>>
MultiByte == {"U+00E9", "U+20AC", "U+1F600"}

\* the value of a byte of a multi-byte character
ByteVal(b) ==
    CASE b = "0xC3" -> 195 [] b = "0xA9" -> 169
      [] b = "0xE2" -> 226 [] b = "0x82" -> 130 [] b = "0xAC" -> 172
      [] b = "0xF0" -> 240 [] b = "0x9F" -> 159 [] b = "0x98" -> 152
      [] b = "0x80" -> 128
      [] OTHER -> 0

\* PyUnicode_AsUTF8AndSize on a string without surrogates
RECURSIVE Encode(_)
Encode(s) == IF s = <<>> THEN <<>> ELSE Utf8Bytes(Head(s)) \o Encode(Tail(s))
Utf8(s) == IF \A k \in 1..Len(s) : s[k] \notin MultiByte THEN s ELSE Encode(s)

\* the first six digits of a fraction as microseconds, right-padded with zeros
RECURSIVE Micros(_, _)
Micros(ds, weight) ==
    IF ds = <<>> \/ weight = 0 THEN 0
    ELSE DigitVal(Head(ds)) * weight + Micros(Tail(ds), weight \div 10)

\* the byte at position k of a C string: the NUL that ends it past its end
CharAt(s, k) == IF k <= Len(s) THEN s[k] ELSE "NUL"

\* parse_digits(p, n) of the C implementation of fromisoformat, at position k
DigitsAt(s, k, n) == \A j \in k..(k + n - 1) : CharAt(s, j) \in Digits

RECURSIVE NumAt(_, _, _)
NumAt(s, k, n) == IF n = 0 THEN 0 ELSE NumAt(s, k, n - 1) * 10 + DigitVal(s[k + n - 1])

\* the first position from p on that holds no digit
RECURSIVE SkipDigits(_, _)
SkipDigits(s, p) == IF CharAt(s, p) \in Digits THEN SkipDigits(s, p + 1) ELSE p

\* the proleptic Gregorian calendar of datetime: ordinal 1 is 0001-01-01
MINYEAR == 1
MAXYEAR == 9999
MaxOrdinal == 3652059
EpochOrdinal == 719163

IsLeap(y) == y % 4 = 0 /\ (y % 100 # 0 \/ y % 400 = 0)

DaysInMonth(y, m) ==
    IF m = 2 THEN (IF IsLeap(y) THEN 29 ELSE 28)
    ELSE IF m \in {4, 6, 9, 11} THEN 30 ELSE 31

DaysBeforeYear(y) ==
    (y - 1) * 365 + ((y - 1) \div 4) - ((y - 1) \div 100) + ((y - 1) \div 400)

DaysBeforeMonth(y, m) ==
    <<0, 31, 59, 90, 120, 151, 181, 212, 243, 273, 304, 334>>[m]
        + (IF m > 2 /\ IsLeap(y) THEN 1 ELSE 0)

\* the ordinal of a date, 0 when the date does not exist (ValueError)
YmdToOrd(y, m, d) ==
    IF y < MINYEAR \/ y > MAXYEAR \/ m < 1 \/ m > 12 \/ d < 1 THEN 0
    ELSE IF d > DaysInMonth(y, m) THEN 0
    ELSE DaysBeforeYear(y) + DaysBeforeMonth(y, m) + d

\* the day of the week of 1 January, Monday being 0
FirstWeekday(y) == (DaysBeforeYear(y) + 1 + 6) % 7

\* iso_week1_monday: the ordinal of the Monday that starts ISO week 1
IsoWeek1Monday(y) ==
    DaysBeforeYear(y) + 1 - FirstWeekday(y) + (IF FirstWeekday(y) > 3 THEN 7 ELSE 0)

\* the ordinal a week date is given, when it is a day of a year datetime has
InRange(ordinal) == IF ordinal >= 1 /\ ordinal <= MaxOrdinal THEN ordinal ELSE 0

\* iso_to_ymd: the ordinal of day d of week w of ISO year y, 0 for ValueError
IsoToOrd(y, w, d) ==
    IF y < MINYEAR \/ y > MAXYEAR THEN 0
    ELSE IF w <= 0 \/ w > 53 THEN 0
    ELSE IF w = 53 /\ ~(FirstWeekday(y) = 3 \/ (FirstWeekday(y) = 2 /\ IsLeap(y))) THEN 0
    ELSE IF d <= 0 \/ d >= 8 THEN 0
    ELSE InRange(IsoWeek1Monday(y) + (w - 1) * 7 + d - 1)

\* _find_isoformat_datetime_separator: the number of bytes of the date of a
\* string of at least 7 bytes, -1 when there is none
Separator(s) ==
    IF Len(s) = 7 THEN 7
    ELSE IF s[5] = "-"
         THEN IF s[6] = "W"
              THEN IF Len(s) > 8 /\ s[9] = "-"
                   THEN IF Len(s) = 9 THEN -1
                        ELSE IF Len(s) > 10 /\ s[11] \in Digits THEN 8 ELSE 10
                   ELSE 8
              ELSE 10
         ELSE IF s[5] = "W"
              THEN IF SkipDigits(s, 8) - 1 < 9 THEN SkipDigits(s, 8) - 1
                   ELSE IF (SkipDigits(s, 8) - 1) % 2 = 0 THEN 7 ELSE 8
              ELSE 8

\* the day of a week date whose week ends before position p: absent (Monday)
\* when the date ends there, else one digit after the "-" of a dashed date
IsoWeekDay(s, p, len, dashed) ==
    IF p - 1 >= len THEN 1
    ELSE IF dashed /\ CharAt(s, p) # "-" THEN 0
    ELSE IF ~DigitsAt(s, IF dashed THEN p + 1 ELSE p, 1) THEN 0
    ELSE DigitVal(s[IF dashed THEN p + 1 ELSE p])

\* YYYY[-]Www[[-]D], the week at position p
IsoWeekDate(s, p, len, dashed) ==
    IF ~DigitsAt(s, p, 2) THEN 0
    ELSE IsoToOrd(NumAt(s, 1, 4), NumAt(s, p, 2), IsoWeekDay(s, p + 2, len, dashed))

\* YYYY[-]MM[-]DD, the month at position p
IsoMonthDate(s, p, dashed) ==
    IF ~DigitsAt(s, p, 2) THEN 0
    ELSE IF dashed /\ CharAt(s, p + 2) # "-" THEN 0
    ELSE IF ~DigitsAt(s, IF dashed THEN p + 3 ELSE p + 2, 2) THEN 0
    ELSE YmdToOrd(NumAt(s, 1, 4), NumAt(s, p, 2), NumAt(s, IF dashed THEN p + 3 ELSE p + 2, 2))

\* what follows the year, which is dashed when a "-" follows it
IsoAfterYear(s, p, len, dashed) ==
    IF CharAt(s, p) = "W" THEN IsoWeekDate(s, p + 1, len, dashed)
    ELSE IsoMonthDate(s, p, dashed)

\* parse_isoformat_date on the first len characters: the ordinal of the date,
\* 0 for a malformed text or a date that does not exist
ParseIsoDate(s, len) ==
    IF ~DigitsAt(s, 1, 4) THEN 0
    ELSE IsoAfterYear(s, IF CharAt(s, 5) = "-" THEN 6 ELSE 5, len, CharAt(s, 5) = "-")

\* what parse_hh_mm_ss_ff gives: rv < 0 for a malformed text, rv = 1 when it
\* stopped before the end of the string, and the fields it read
Fields(rv, vals, us) == [rv |-> rv, vals |-> vals, us |-> us]
Malformed == Fields(-1, <<>>, 0)
Val(vals, k) == IF k <= Len(vals) THEN vals[k] ELSE 0

\* the fraction at position p of a text that ends before p_end: up to six
\* bytes, all of them digits, are read, further digits are skipped, and rv
\* tells whether a NUL follows them
ParseFraction(s, p, p_end, vals) ==
    IF ~DigitsAt(s, p, Min(p_end - p, 6)) THEN Malformed
    ELSE Fields(IF CharAt(s, SkipDigits(s, p + Min(p_end - p, 6))) # "NUL" THEN 1 ELSE 0,
                vals, Micros(SubSeq(s, p, p + Min(p_end - p, 6) - 1), 100000))

RECURSIVE ParseHhMmSsFf(_, _, _, _, _, _)

\* after the k-th field: the next field, or the fraction after the third
ParseNext(s, p, p_end, k, has_separator, vals) ==
    IF k < 3 THEN ParseHhMmSsFf(s, p, p_end, k + 1, has_separator, vals)
    ELSE ParseFraction(s, p, p_end, vals)

\* the byte c after the k-th field decides how the text goes on at p
ParseAfter(s, p, p_end, k, has_separator, c, vals) ==
    IF has_separator /\ c = ":" THEN ParseNext(s, p, p_end, k, has_separator, vals)
    ELSE IF c \in {".", ","} THEN ParseFraction(s, p, p_end, vals)
    ELSE IF ~has_separator THEN ParseNext(s, p - 1, p_end, k, has_separator, vals)
    ELSE Malformed

\* parse_hh_mm_ss_ff from its k-th field on, which stands at position p of a
\* text that ends before p_end: HH[:MM[:SS[.ffffff]]] or HH[MM[SS[ffffff]]].
\* At the end of the text rv tells whether the byte after the field is a NUL
ParseHhMmSsFf(s, p, p_end, k, has_separator, vals) ==
    IF ~DigitsAt(s, p, 2) THEN Malformed
    ELSE IF p + 3 >= p_end
         THEN Fields(IF CharAt(s, p + 2) # "NUL" THEN 1 ELSE 0,
                     Append(vals, NumAt(s, p, 2)), 0)
         ELSE ParseAfter(s, p + 3, p_end, k,
                         IF k = 1 THEN CharAt(s, p + 2) = ":" ELSE has_separator,
                         CharAt(s, p + 2), Append(vals, NumAt(s, p, 2)))

\* the position of the time zone: the first "Z", "+" or "-" of the time
TzPos(s) ==
    IF \E k \in 1..Len(s) : s[k] \in {"Z", "+", "-"}
    THEN CHOOSE k \in 1..Len(s) :
             s[k] \in {"Z", "+", "-"} /\ \A j \in 1..(k - 1) : s[j] \notin {"Z", "+", "-"}
    ELSE Len(s) + 1

\* the seconds of the day of the fields read, -1 when a field is out of range
SecondOfDay(vals) ==
    IF Val(vals, 1) > 23 \/ Val(vals, 2) > 59 \/ Val(vals, 3) > 59 THEN -1
    ELSE Val(vals, 1) * 3600 + Val(vals, 2) * 60 + Val(vals, 3)

\* the time zone of offset seconds and microseconds: an offset of zero seconds
\* is UTC whatever its microseconds, and a timezone is less than 24 hours
TzInfo(d, t, seconds, micros) ==
    IF seconds = 0 THEN DateTime("aware", d, SecondOfDay(t.vals), t.us)
    ELSE IF seconds >= SecondsPerDay \/ seconds <= -SecondsPerDay THEN NoTime
    ELSE DateTime("aware", d, SecondOfDay(t.vals) - seconds, t.us - micros)

\* the offset o read after the sign
IsoOffset(d, t, sign, o) ==
    IF o.rv # 0 THEN NoTime
    ELSE TzInfo(d, t, sign * (Val(o.vals, 1) * 3600 + Val(o.vals, 2) * 60 + Val(o.vals, 3)),
                sign * o.us)

\* parse_isoformat_time and the datetime made of its result: t is the time of
\* day read from the bytes s before the time zone at pos, on day d
IsoTime(d, s, pos, t) ==
    IF t.rv < 0 THEN NoTime
    ELSE IF SecondOfDay(t.vals) < 0 THEN NoTime
    ELSE IF pos > Len(s)
         THEN (IF t.rv = 1 THEN NoTime ELSE DateTime("naive", d, SecondOfDay(t.vals), t.us))
    ELSE IF s[pos] = "Z"
         THEN (IF CharAt(s, pos + 1) # "NUL" THEN NoTime
               ELSE DateTime("aware", d, SecondOfDay(t.vals), t.us))
    ELSE IsoOffset(d, t, IF s[pos] = "-" THEN -1 ELSE 1,
                   ParseHhMmSsFf(s, pos + 1, Len(s) + 1, 1, FALSE, <<>>))

\* the time s on day d, its time zone at pos
IsoSplit(d, s, pos) ==
    Only({IsoTime(d, s, pos, t) : t \in {ParseHhMmSsFf(s, 1, pos, 1, TRUE, <<>>)}})

\* the number of bytes of the UTF-8 character whose first byte is b
SkipLen(b) ==
    IF ByteVal(b) < 128 THEN 1
    ELSE IF ByteVal(b) \div 16 = 14 THEN 3
    ELSE IF ByteVal(b) \div 16 = 15 THEN 4
    ELSE 2

\* the date of ordinal ord takes the first sep bytes of s; one character,
\* whichever it is, separates it from the time
IsoDateTime(s, sep, ord) ==
    IF ord = 0 THEN NoTime
    ELSE IF Len(s) > sep
         THEN Only({IsoSplit(ord - EpochOrdinal, t, TzPos(t)) :
                      t \in {Drop(s, sep + SkipLen(s[sep + 1]))}})
         ELSE DateTime("naive", ord - EpochOrdinal, 0, 0)

IsoDate(s, sep) ==
    IF sep < 0 THEN NoTime
    ELSE Only({IsoDateTime(s, sep, ord) : ord \in {ParseIsoDate(s, sep)}})

\* _sanitize_isoformat_str: the first surrogate at one of the indices 7, 8
\* and 10, where a separator can stand, gives way to "T"
SurrogateSeparator(s) ==
    IF CharAt(s, 8) \in Surrogates THEN 8
    ELSE IF CharAt(s, 9) \in Surrogates THEN 9
    ELSE IF CharAt(s, 11) \in Surrogates THEN 11
    ELSE 0

Sanitize(s) ==
    IF SurrogateSeparator(s) = 0 THEN s
    ELSE [s EXCEPT ![SurrogateSeparator(s)] = "T"]

\* datetime_fromisoformat on the UTF-8 bytes of the sanitized string
IsoBytes(s) == Only({IsoDate(s, sep) : sep \in {Separator(s)}})

\* what is left of the string after _sanitize_isoformat_str: a surrogate
\* makes PyUnicode_AsUTF8AndSize raise UnicodeEncodeError
IsoSanitized(s) ==
    IF \E k \in 1..Len(s) : s[k] \in Surrogates THEN NoTime
    ELSE Only({IsoBytes(b) : b \in {Utf8(s)}})

\* datetime.fromisoformat (CPython 3.11) on the characters s; NoTime stands
\* for ValueError
FromIsoFormat(s) ==
    IF Len(s) < 7 THEN NoTime
    ELSE Only({IsoSanitized(t) : t \in {Sanitize(s)}})

\* datetime.fromtimestamp(st_mtime)
FromTimestamp(mtime) == Naive(mtime, 0)

\* lines 88-90: s has its only "." at k; the fraction loses its trailing "Z"s,
\* is cut to six characters and is given a "Z"
CutFraction(s, k) ==
    Take(s, k - 1) \o <<".">> \o Take(Chars(RStrip(Drop(s, k), "Z")), 6) \o <<"Z">>

\* lines 85-92; NoTime stands for the ValueError or TypeError raised on the way:
\* '.' in <number> raises, and so does  base, frac = split('.')  on two dots.
\* No date-time symbol holds a "." or a "Z", so that the search for them, the
\* split and the replacement go symbol by symbol; the cut to six characters
\* and fromisoformat are given the characters
ParseTimestamp(v) ==
    IF v.t # "str" THEN NoTime
    ELSE IF Count(v.s, ".") > 1 THEN NoTime
    ELSE Only({FromIsoFormat(t) :
                   t \in {Chars(Replace(IF Contains(v.s, ".")
                                        THEN CutFraction(v.s, IndexOf(v.s, "."))
                                        ELSE v.s,
                                        "Z", <<"+", "0", "0", ":", "0", "0">>))}})

(***************************************************************************)
(* File names are <<stem, extension>>, i.e. the name stem.extension.       *)
(* Only WARNING and ERROR records of the log are modelled.                 *)
(***************************************************************************)
excluded_files == {<<"current-session", "json">>, <<"active-session-config", "json">>}

Err(what, name) == [level |-> "ERROR", what |-> what, file |-> name]
Warn(what, name) == [level |-> "WARNING", what |-> what, file |-> name]
NoFile == <<"", "">>

NoInfo(log) == [session_id |-> Null, timestamp |-> NoTime, log |-> log]

\* lines 92-97: the parsed timestamp, or the error of line 102
Parsed(session_id, timestamp, name) ==
    IF timestamp = NoTime THEN NoInfo(<<Err("process", name)>>)
    ELSE [session_id |-> session_id, timestamp |-> timestamp, log |-> <<>>]

\* lines 80-97
Resolve(session_id, timestamp_str, name, f) ==
    IF ~Truthy(session_id) THEN NoInfo(<<Warn("noid", name)>>)
    ELSE IF Truthy(timestamp_str)
         THEN Only({Parsed(session_id, timestamp, name) :
                      timestamp \in {ParseTimestamp(timestamp_str)}})
         ELSE [session_id |-> session_id, timestamp |-> FromTimestamp(f.mtime),
               log |-> <<>>]

\* lines 51-104 with the first two fields of each priority list exchanged
GetSessionInfoFlipped(name, f) ==
    IF f.content.kind = "text" THEN NoInfo(<<Err("json", name)>>)
    ELSE IF f.content.kind # "object" THEN NoInfo(<<Err("process", name)>>)
    ELSE Only({Resolve(session_id, timestamp_str, name, f) :
                 session_id \in {PyOr(PyOr(PyOr(Get(f.content.doc, "sessionId"),
                                                Get(f.content.doc, "activeSessionId")),
                                           Get(f.content.doc, "id")),
                                      Get(f.content.doc, "accountId"))},
                 timestamp_str \in {PyOr(PyOr(Get(f.content.doc, "timestamp"),
                                              Get(f.content.doc, "updatedAt")),
                                         Get(f.content.doc, "createdAt"))}})

\* lines 51-104 with the handler of lines 99-100 logging nothing
GetSessionInfoSilent(name, f) ==
    IF f.content.kind = "text" THEN NoInfo(<<>>)
    ELSE IF f.content.kind # "object" THEN NoInfo(<<Err("process", name)>>)
    ELSE Only({Resolve(session_id, timestamp_str, name, f) :
                 session_id \in {PyOr(PyOr(PyOr(Get(f.content.doc, "activeSessionId"),
                                                Get(f.content.doc, "sessionId")),
                                           Get(f.content.doc, "id")),
                                      Get(f.content.doc, "accountId"))},
                 timestamp_str \in {PyOr(PyOr(Get(f.content.doc, "updatedAt"),
                                              Get(f.content.doc, "timestamp")),
                                         Get(f.content.doc, "createdAt"))}})

\* lines 51-104.  content.kind: "text" (not JSON), "array" (JSON, but a list:
\* data.get raises AttributeError), "binary" (no UTF-8: reading it raises
\* UnicodeDecodeError), "object" (a JSON object, data = content.doc)
GetSessionInfo(name, f) ==
    IF f.content.kind = "text" THEN NoInfo(<<Err("json", name)>>)
    ELSE IF f.content.kind # "object" THEN NoInfo(<<Err("process", name)>>)
    ELSE Only({Resolve(session_id, timestamp_str, name, f) :
                 session_id \in {PyOr(PyOr(PyOr(Get(f.content.doc, "activeSessionId"),
                                                Get(f.content.doc, "sessionId")),
                                           Get(f.content.doc, "id")),
                                      Get(f.content.doc, "accountId"))},
                 timestamp_str \in {PyOr(PyOr(Get(f.content.doc, "updatedAt"),
                                              Get(f.content.doc, "timestamp")),
                                         Get(f.content.doc, "createdAt"))}})

(***************************************************************************)
(* scan_and_deduplicate.                                                   *)
(***************************************************************************)
\* the entries of the directory named in listing, in that order
RECURSIVE Listing(_, _)
Listing(listing, present) ==
    IF listing = <<>> THEN <<>>
    ELSE (IF Head(listing) \in present THEN <<Head(listing)>> ELSE <<>>)
         \o Listing(Tail(listing), present)

RECURSIVE Filter(_, _)
Filter(s, keep) ==
    IF s = <<>> THEN <<>>
    ELSE (IF Head(s) \in keep THEN <<Head(s)>> ELSE <<>>) \o Filter(Tail(s), keep)

\* lines 117-118 without the exclusion test
JsonFilesNoExclusion(fs, listing) ==
    Filter(Listing(listing, DOMAIN fs), {n \in DOMAIN fs : n[2] = "json"})

\* lines 117-118: glob('*.json'), which yields the entries in the order in which
\* the directory lists them, minus excluded_files
JsonFiles(fs, listing) ==
    Filter(Listing(listing, DOMAIN fs),
           {n \in DOMAIN fs : n[2] = "json" /\ n \notin excluded_files})

\* lines 130-131: r is what get_session_info returned for name
Collected(name, r, rest) ==
    [entries |-> (IF Truthy(r.session_id) /\ r.timestamp # NoTime
                  THEN << [name |-> name, session_id |-> r.session_id,
                           timestamp |-> r.timestamp] >>
                  ELSE <<>>) \o rest.entries,
     log |-> r.log \o rest.log]

\* lines 127-131: the entries of session_map, in discovery order
RECURSIVE Collect(_, _)
Collect(names, fs) ==
    IF names = <<>> THEN [entries |-> <<>>, log |-> <<>>]
    ELSE Only({Collected(Head(names), r, rest) :
                 r \in {GetSessionInfo(Head(names), fs[Head(names)])},
                 rest \in {Collect(Tail(names), fs)}})

\* the keys of session_map in insertion order
RECURSIVE GroupIds(_, _)
GroupIds(entries, seen) ==
    IF entries = <<>> THEN <<>>
    ELSE IF Head(entries).session_id \in seen THEN GroupIds(Tail(entries), seen)
    ELSE <<Head(entries).session_id>>
         \o GroupIds(Tail(entries), seen \cup {Head(entries).session_id})

RECURSIVE GroupOf(_, _)
GroupOf(entries, id) ==
    IF entries = <<>> THEN <<>>
    ELSE (IF Head(entries).session_id = id THEN <<Head(entries)>> ELSE <<>>)
         \o GroupOf(Tail(entries), id)

\* comparing an offset-naive with an offset-aware datetime raises TypeError
SortRaises(group) ==
    \E p, q \in 1..Len(group) : group[p].timestamp.t # group[q].timestamp.t

\* line 138: files.sort(key=lambda x: x[1], reverse=True), a stable sort
SortNewestFirst(group) ==
    LET n == Len(group)
        Rank(k) == 1 + Cardinality({j \in 1..n :
                        \/ Later(group[j].timestamp, group[k].timestamp)
                        \/ (group[j].timestamp = group[k].timestamp /\ j < k)})
    IN  [p \in 1..n |-> group[CHOOSE k \in 1..n : Rank(k) = p]]

\* lines 144-150 stopping after the first duplicate
UnlinkFirstOnly(victims, lockedNames) ==
    IF victims = <<>> THEN [unlinks |-> <<>>, log |-> <<>>]
    ELSE IF Head(victims).name \in lockedNames
         THEN [unlinks |-> <<>>, log |-> <<Err("unlink", Head(victims).name)>>]
         ELSE [unlinks |-> <<Head(victims).name>>, log |-> <<>>]

\* lines 145-150: one unlink, then the rest
Unlinked(name, lockedNames, rest) ==
    IF name \in lockedNames
    THEN [unlinks |-> rest.unlinks, log |-> <<Err("unlink", name)>> \o rest.log]
    ELSE [unlinks |-> <<name>> \o rest.unlinks, log |-> rest.log]

\* lines 144-150: unlink every file but the newest, logging each failure
RECURSIVE UnlinkAll(_, _)
UnlinkAll(victims, lockedNames) ==
    IF victims = <<>> THEN [unlinks |-> <<>>, log |-> <<>>]
    ELSE Only({Unlinked(Head(victims).name, lockedNames, rest) :
                 rest \in {UnlinkAll(Tail(victims), lockedNames)}})

\* lines 141-150 for one group, then the groups after it
Deduplicated(sorted, u, rest) ==
    Only({[unlinks |-> unlinked.unlinks \o rest.unlinks,
           kept |-> {sorted[1].name} \cup rest.kept,
           log |-> unlinked.log \o rest.log] : unlinked \in {u}})

RECURSIVE Deduplicate(_, _, _)

\* lines 136-150 for the group of the first identifier of ids
DeduplicateGroup(group, ids, entries, lockedNames) ==
    IF Len(group) > 1
    THEN IF SortRaises(group)
         THEN [unlinks |-> <<>>, kept |-> {}, log |-> <<Err("dedup", NoFile)>>]
         ELSE Only({Deduplicated(sorted, UnlinkAll(Tail(sorted), lockedNames), rest) :
                      sorted \in {SortNewestFirst(group)},
                      rest \in {Deduplicate(Tail(ids), entries, lockedNames)}})
    ELSE Deduplicate(Tail(ids), entries, lockedNames)

\* lines 135-150 leaving the loop after the first identifier
DeduplicateFirstGroupOnly(ids, entries, lockedNames) ==
    IF ids = <<>> THEN [unlinks |-> <<>>, kept |-> {}, log |-> <<>>]
    ELSE Only({DeduplicateGroup(group, <<Head(ids)>>, entries, lockedNames) :
                 group \in {GroupOf(entries, Head(ids))}})

\* lines 135-150; a TypeError from sort leaves the loop for the handler of line 162
Deduplicate(ids, entries, lockedNames) ==
    IF ids = <<>> THEN [unlinks |-> <<>>, kept |-> {}, log |-> <<>>]
    ELSE Only({DeduplicateGroup(group, ids, entries, lockedNames) :
                 group \in {GroupOf(entries, Head(ids))}})

SeqRange(s) == {s[k] : k \in 1..Len(s)}

\* what a call did: the directory it met, the files it listed and opened, the
\* entries of its session_map, the files it unlinked (in that order), the files
\* it kept as newest, and its log
Report(existed, before, listed, session_map, unlinks, kept, log) ==
    [existed |-> existed, before |-> before, listed |-> listed,
     opened |-> SeqRange(listed), session_map |-> session_map,
     unlinks |-> unlinks, removed |-> SeqRange(unlinks), kept |-> kept, log |-> log]

\* lines 133-160: c is what the loop of lines 127-131 collected
Reconciled(fs, json_files, c, d) ==
    Report(TRUE, fs, json_files, c.entries, d.unlinks, d.kept, c.log \o d.log)

\* lines 133-150
Grouped(fs, json_files, c, lockedNames) ==
    Only({Reconciled(fs, json_files, c, d) :
            d \in {Only({Deduplicate(ids, c.entries, lockedNames) :
                            ids \in {GroupIds(c.entries, {})}})}})

\* lines 120-160
Scanned(fs, json_files, lockedNames) ==
    IF json_files = <<>>
    THEN Report(TRUE, fs, <<>>, <<>>, <<>>, {}, <<>>)
    ELSE Only({Grouped(fs, json_files, c, lockedNames) : c \in {Collect(json_files, fs)}})

\* lines 106-163 without the test of lines 109-111: glob finds nothing in a
\* directory that does not exist
ScanAndDeduplicateNoDirCheck(fs, exists, lockedNames, listing) ==
    IF ~exists
    THEN Report(FALSE, fs, <<>>, <<>>, <<>>, {}, <<>>)
    ELSE Only({Scanned(fs, json_files, lockedNames) : json_files \in {JsonFiles(fs, listing)}})

\* lines 106-163: what one call reads, logs and unlinks
ScanAndDeduplicate(fs, exists, lockedNames, listing) ==
    IF ~exists
    THEN Report(FALSE, fs, <<>>, <<>>, <<>>, {}, <<Err("nodir", NoFile)>>)
    ELSE Only({Scanned(fs, json_files, lockedNames) : json_files \in {JsonFiles(fs, listing)}})

Restrict(fs, names) == [n \in names |-> fs[n]]

\* the effect of a call that did r on the directory and on the record of scans
Scan(r) ==
    /\ files' = Restrict(files, DOMAIN files \ r.removed)
    /\ reports' = Append(reports, r)

DoScan == \E r \in {ScanAndDeduplicate(files, dirExists, locked, order)} : Scan(r)

(***************************************************************************)
(* Directory contents explored.                                            *)
(***************************************************************************)
EmptyDoc == [k \in FieldNames |-> Absent]
Doc(idField, idVal, tsField, tsVal) ==
    [k \in FieldNames |-> IF k = idField THEN idVal
                          ELSE IF k = tsField THEN tsVal ELSE Absent]

Text == [kind |-> "text", doc |-> EmptyDoc]
Array == [kind |-> "array", doc |-> EmptyDoc]
Binary == [kind |-> "binary", doc |-> EmptyDoc]
Obj(doc) == [kind |-> "object", doc |-> doc]
File(content, mtime) == [content |-> content, mtime |-> mtime]

S1 == Str(<<"s", "1">>)
S2 == Str(<<"s", "2">>)

\* what a session file of the scanned directory may hold: no JSON, no
\* identifier, a timestamp that does not parse, and files of two sessions with
\* an embedded naive timestamp, an embedded UTC timestamp or none
ScanFiles ==
    { File(Text, 1),
      File(Obj(EmptyDoc), 1),
      File(Obj(Doc("sessionId", S1, "updatedAt", Str(<<"T3", "x">>))), 1),
      File(Obj(Doc("sessionId", S1, "updatedAt", Str(<<"T1">>))), 3),
      File(Obj(Doc("id", S1, "timestamp", Str(<<"T2">>))), 1),
      File(Obj(Doc("activeSessionId", S1, "updatedAt", Str(<<"T2", ".", "5", "Z">>))), 1),
      File(Obj(Doc("sessionId", S1, "updatedAt", Absent)), 1),
      File(Obj(Doc("sessionId", S2, "updatedAt", Null)), 1) }

Slots == {<<"a", "json">>, <<"b", "json">>, <<"c", "json">>}

\* a fourth session file, of another session than most of the others
LastFiles ==
    { File(Obj(Doc("accountId", S2, "createdAt", Str(<<"T1">>))), 1),
      File(Obj(Doc("sessionId", S2, "updatedAt", Null)), 3) }

\* the files that are always there: one that is no .json file
FixedFiles ==
    [n \in {<<"notes", "txt">>} |->
        File(Obj(Doc("sessionId", S1, "updatedAt", Str(<<"T1">>))), 1)]

\* the excluded files carry the identifier of other files
ExcludedFiles ==
    [n \in excluded_files |->
        IF n = <<"current-session", "json">>
        THEN File(Obj(Doc("activeSessionId", S1, "updatedAt", Str(<<"T3">>))), 3)
        ELSE File(Obj(Doc("sessionId", S1, "updatedAt", Str(<<"T1">>))), 1)]

Merge(f, g) == [n \in DOMAIN f \cup DOMAIN g |-> IF n \in DOMAIN f THEN f[n] ELSE g[n]]

\* the scanned directories: the fixed and the excluded files, up to three
\* session files and perhaps a fourth
Directories ==
    { Merge(Merge(Merge(FixedFiles, ExcludedFiles), sessions), last) :
        sessions \in UNION {[present -> ScanFiles] : present \in SUBSET Slots},
        last \in UNION {[present -> LastFiles] : present \in SUBSET {<<"d", "json">>}} }

\* the files whose unlink fails: none, or one of the session files
LockedSets == {{}, {<<"a", "json">>}}

\* the sequences that hold every element of S once
Orderings(S) ==
    {p \in [1..Cardinality(S) -> S] : \A j, k \in 1..Cardinality(S) : p[j] = p[k] => j = k}

\* the entries that no scan opens, in the order in which they are listed
OtherNames == << <<"current-session", "json">>, <<"notes", "txt">>,
                 <<"active-session-config", "json">> >>

\* The orders in which a directory that holds names may list them: the session
\* files in any order.  The place of the other entries makes no difference to
\* a scan, which filters them out, so they are listed after the session files.
ListingOrders(names) ==
    {p \o OtherNames : p \in Orderings(names \ SeqRange(OtherNames))}

(***************************************************************************)
(* SpecScan: scan_and_deduplicate called repeatedly on a directory that    *)
(* nothing else touches.                                                   *)
(***************************************************************************)
Idle ==
    /\ info = NoInfo(<<>>)
    /\ interval = 0
    /\ running = TRUE
    /\ i = 0
    /\ sleeps = 0
    /\ signalled = "no"
    /\ finalLogged = FALSE
    /\ lateScans = 0

InitScan ==
    /\ files \in Directories
    /\ dirExists = TRUE
    /\ order \in ListingOrders(DOMAIN files)
    /\ locked \in LockedSets
    /\ reports = <<>>
    /\ mode = "scan"
    /\ pc = "scan"
    /\ Idle

CallScan ==
    /\ pc = "scan"
    /\ Len(reports) < MaxScans
    /\ DoScan
    /\ UNCHANGED <<dirExists, order, locked, info, mode, interval, pc, running, i, sleeps,
                   signalled, finalLogged, lateScans>>

NextScan == CallScan

SpecScan == InitScan /\ [][NextScan]_vars

(***************************************************************************)
(* Vocabulary of the properties of a scan.                                 *)
(***************************************************************************)
IsError(e) == e.level = "ERROR"
ErrorsOf(r) == SelectSeq(r.log, IsError)
ErrorsAbout(r, n) == Cardinality({k \in 1..Len(r.log) : IsError(r.log[k]) /\ r.log[k].file = n})

\* the non-excluded .json files a scan found in the directory
Candidates(r) == {n \in DOMAIN r.before : n[2] = "json" /\ n \notin excluded_files}

\* the files a scan resolved to an identifier and a timestamp, and what it
\* resolved n to
Resolves(r) == {r.session_map[k].name : k \in 1..Len(r.session_map)}
Resolved(r, n) == r.session_map[CHOOSE k \in 1..Len(r.session_map) : r.session_map[k].name = n]

\* the files a scan found that resolve to the identifier of n
GroupOfName(r, n) ==
    {m \in Resolves(r) : Resolved(r, m).session_id = Resolved(r, n).session_id}

Groups(r) == {GroupOfName(r, n) : n \in Resolves(r)}

Survivors(r) == DOMAIN r.before \ r.removed

\* exactly one file of the group is left, and none of the group is newer
ReducedToNewest(r, g) ==
    \E n \in g :
        /\ g \cap Survivors(r) = {n}
        /\ \A m \in g : ~Later(Resolved(r, m).timestamp, Resolved(r, n).timestamp)

HasEmbeddedTimestamp(f) ==
    f.content.kind = "object" /\ \E k \in 1..Len(TsFields) : Truthy(f.content.doc[TsFields[k]])

\* C1 (as claimed): after a scan, every group of two or more files that can all
\* be unlinked is reduced to its file with the latest resolved timestamp.
C1_NewestSurvives ==
    \A k \in 1..Len(reports) :
        \A g \in Groups(reports[k]) :
            (Cardinality(g) >= 2 /\ g \cap locked = {}) => ReducedToNewest(reports[k], g)

\* C2: after a scan that logged no error, no two non-excluded .json files left in
\* the directory resolve to the same session identifier.
C2_OnePerIdentifier ==
    \A k \in 1..Len(reports) :
        ErrorsOf(reports[k]) = <<>> =>
            \A g \in Groups(reports[k]) : Cardinality(g \cap Survivors(reports[k])) = 1

\* an error-free scan reduced a group in which a file with an embedded timestamp
\* ties with a file that falls back to its modification time
C2_Witness ==
    /\ Len(reports) >= 1
    /\ ErrorsOf(reports[1]) = <<>>
    /\ \E g \in Groups(reports[1]) : \E n, m \in g :
          /\ HasEmbeddedTimestamp(reports[1].before[n])
          /\ ~HasEmbeddedTimestamp(reports[1].before[m])
          /\ Resolved(reports[1], n).timestamp = Resolved(reports[1], m).timestamp
          /\ Cardinality(g \cap reports[1].removed) = Cardinality(g) - 1

\* C3: no scan opens or unlinks current-session.json or active-session-config.json.
C3_ExcludedUntouched ==
    \A k \in 1..Len(reports) :
        /\ reports[k].opened \cap excluded_files = {}
        /\ reports[k].removed \cap excluded_files = {}
        /\ \A n \in excluded_files \cap DOMAIN reports[k].before :
              n \in DOMAIN files /\ files[n] = reports[k].before[n]

\* a scan removed a file while both excluded files, older and newer ones of the
\* same identifier, were in the directory
C3_Witness ==
    /\ Len(reports) >= 1
    /\ excluded_files \subseteq DOMAIN reports[1].before
    /\ \E n \in reports[1].removed :
          Resolved(reports[1], n).session_id
              = reports[1].before[<<"active-session-config", "json">>].content.doc["sessionId"]

\* C4: a file that is not JSON is never unlinked or changed, every scan logs
\* exactly one error about it, and it is still there after every scan.
C4_UnparsableKept ==
    \A k \in 1..Len(reports) :
        \A n \in Candidates(reports[k]) :
            reports[k].before[n].content.kind = "text" =>
                /\ n \notin reports[k].removed
                /\ ErrorsAbout(reports[k], n) = 1
                /\ n \in DOMAIN files /\ files[n] = reports[k].before[n]

\* two scans met an unparsable file, the first of them removing a duplicate
C4_Witness ==
    /\ Len(reports) >= 2
    /\ reports[1].removed # {}
    /\ \E n \in Candidates(reports[2]) : reports[2].before[n].content.kind = "text"

\* C5 (as claimed): a scan that follows another deletes nothing and logs no error.
C5_SecondScanSilent ==
    \A k \in 2..Len(reports) :
        reports[k].removed = {} /\ ErrorsOf(reports[k]) = <<>>

\* C5 (amended): a scan that follows another deletes nothing, and every error it
\* logs was logged by the scan before it too.
C5_SecondScanIdempotent ==
    \A k \in 2..Len(reports) :
        /\ reports[k].removed = {}
        /\ DOMAIN files = Survivors(reports[1])
        /\ SeqRange(ErrorsOf(reports[k])) \subseteq SeqRange(ErrorsOf(reports[k-1]))

\* a second scan followed one that removed a file and logged an error
C5_Witness ==
    /\ Len(reports) >= 2
    /\ reports[1].removed # {}
    /\ ErrorsOf(reports[1]) # <<>>

FailureKinds == {"json", "process", "noid", "unlink"}

\* C7 (as claimed): in a scan in which a file failed to parse, had no identifier
\* or could not be unlinked, every group of two or more files that can all be
\* unlinked is still reduced to its newest file.
C7_FailureDoesNotStopScan ==
    \A k \in 1..Len(reports) :
        (\E e \in 1..Len(reports[k].log) : reports[k].log[e].what \in FailureKinds) =>
            \A g \in Groups(reports[k]) :
                (Cardinality(g) >= 2 /\ g \cap locked = {}) => ReducedToNewest(reports[k], g)

(***************************************************************************)
(* SpecInfo: get_session_info called on one file.                          *)
(***************************************************************************)
IdValues == {Absent, Str(<<>>), S1, S2}
TsValues == {Absent, Null, Str(<<>>), Str(<<"T1">>), Str(<<"T2", ".", "5", "Z">>),
             Str(<<"T1", "+", "0", "1", "0", "0">>), Str(<<"T1", "NUL">>),
             Str(<<"T1", "U+00E9", "Z">>), Num(5)}

InfoDocs ==
    { [k \in FieldNames |->
          CASE k = "activeSessionId" -> a [] k = "sessionId" -> b [] k = "id" -> c
            [] k = "accountId" -> d [] k = "updatedAt" -> u [] k = "timestamp" -> t
            [] k = "createdAt" -> v] :
        a \in IdValues, b \in IdValues, c \in IdValues, d \in IdValues,
        u \in TsValues, t \in TsValues, v \in TsValues }

InfoFiles ==
    {File(Text, 3), File(Array, 3), File(Binary, 3)} \cup {File(Obj(doc), 3) : doc \in InfoDocs}

InfoName == <<"a", "json">>

InitInfo ==
    /\ files \in {[n \in {InfoName} |-> f] : f \in InfoFiles}
    /\ dirExists = TRUE
    /\ order = <<InfoName>>
    /\ locked = {}
    /\ reports = <<>>
    /\ mode = "info"
    /\ pc = "info"
    /\ Idle

CallGetSessionInfo ==
    /\ pc = "info"
    /\ info' = GetSessionInfo(InfoName, files[InfoName])
    /\ pc' = "infoDone"
    /\ UNCHANGED <<files, dirExists, order, locked, reports, mode, interval, running, i, sleeps,
                   signalled, finalLogged, lateScans>>

NextInfo == CallGetSessionInfo

SpecInfo == InitInfo /\ [][NextInfo]_vars

(***************************************************************************)
(* Spec: the program.  mode "once" is main with --once, "periodic" is main *)
(* without it, and "api" is run_periodic_check called by a program that    *)
(* imports the class and leaves Python's default SIGINT handling in place. *)
(***************************************************************************)
SecondsPerMinute == 60

MainDirectories ==
    { FixedFiles,
      Merge(FixedFiles,
            [n \in {<<"a", "json">>, <<"b", "json">>} |->
                IF n = <<"a", "json">>
                THEN File(Text, 1)
                ELSE File(Obj(Doc("sessionId", S1, "updatedAt", Str(<<"T2">>))), 1)]),
      Merge(FixedFiles,
            [n \in Slots |->
                IF n = <<"a", "json">>
                THEN File(Obj(Doc("sessionId", S1, "updatedAt", Str(<<"T1">>))), 1)
                ELSE IF n = <<"b", "json">>
                THEN File(Obj(Doc("sessionId", S1, "updatedAt", Str(<<"T2">>))), 1)
                ELSE File(Obj(Doc("sessionId", S1, "updatedAt", Str(<<"T3">>))), 1)]) }

NoFiles == [n \in {} |-> File(Text, 1)]

Init ==
    /\ dirExists \in BOOLEAN
    /\ files \in (IF dirExists THEN MainDirectories ELSE {NoFiles})
    /\ order \in ListingOrders(DOMAIN files)
    /\ locked = {}
    /\ reports = <<>>
    /\ info = NoInfo(<<>>)
    /\ mode \in {"once", "periodic", "api"}
    /\ interval \in 0..MaxInterval
    /\ pc = "start"
    /\ running = TRUE
    /\ i = 0
    /\ sleeps = 0
    /\ signalled = "no"
    /\ finalLogged = FALSE
    /\ lateScans = 0

Terminated == pc \in {"done", "exited", "returned", "raised"}

\* the positions inside scan_and_deduplicate
Scanning == {"onceScan", "initialScan", "periodicScan"}

\* scan_and_deduplicate is called: one more late scan when running is false
Called == lateScans' = IF running THEN lateScans ELSE lateScans + 1

\* lines 240-242: --once calls scan_and_deduplicate
CallOnce ==
    /\ pc = "start" /\ mode = "once"
    /\ pc' = "onceScan"
    /\ Called
    /\ UNCHANGED <<files, dirExists, order, locked, reports, info, mode, interval, running,
                   i, sleeps, signalled, finalLogged>>

\* line 242: the scan of --once returns
MainOnce ==
    /\ pc = "onceScan"
    /\ DoScan
    /\ pc' = "final"
    /\ UNCHANGED <<dirExists, order, locked, info, mode, interval, running, i, sleeps,
                   signalled, finalLogged, lateScans>>

\* lines 172-179: the first scan is called at once, whatever running is
CallInitial ==
    /\ pc = "start" /\ mode \in {"periodic", "api"}
    /\ pc' = "initialScan"
    /\ sleeps' = 0
    /\ Called
    /\ UNCHANGED <<files, dirExists, order, locked, reports, info, mode, interval, running,
                   i, signalled, finalLogged>>

\* line 179: the first scan returns
InitialScan ==
    /\ pc = "initialScan"
    /\ DoScan
    /\ pc' = "while"
    /\ UNCHANGED <<dirExists, order, locked, info, mode, interval, running, i, sleeps,
                   signalled, finalLogged, lateScans>>

\* line 182
WhileTest ==
    /\ pc = "while"
    /\ IF running THEN pc' = "for" /\ i' = 0 ELSE pc' = "return" /\ i' = i
    /\ UNCHANGED <<files, dirExists, order, locked, reports, info, mode, interval, running,
                   sleeps, signalled, finalLogged, lateScans>>

\* line 185: range(interval_seconds) yields one more value
ForNext ==
    /\ pc = "for" /\ i < interval * SecondsPerMinute
    /\ pc' = "test"
    /\ UNCHANGED <<files, dirExists, order, locked, reports, info, mode, interval, running, i,
                   sleeps, signalled, finalLogged, lateScans>>

\* line 185: range(interval_seconds) is exhausted
ForEnd ==
    /\ pc = "for" /\ i >= interval * SecondsPerMinute
    /\ pc' = "after"
    /\ UNCHANGED <<files, dirExists, order, locked, reports, info, mode, interval, running, i,
                   sleeps, signalled, finalLogged, lateScans>>

\* line 186: running is true, the body goes on to the sleep
ForTest ==
    /\ pc = "test" /\ running
    /\ pc' = "sleep"
    /\ UNCHANGED <<files, dirExists, order, locked, reports, info, mode, interval, running, i,
                   sleeps, signalled, finalLogged, lateScans>>

\* lines 186-187: running is false
ForBreak ==
    /\ pc = "test" /\ ~running
    /\ pc' = "after"
    /\ UNCHANGED <<files, dirExists, order, locked, reports, info, mode, interval, running, i,
                   sleeps, signalled, finalLogged, lateScans>>

\* line 188: time.sleep(1) returns after one more second of the interval
ForSleep ==
    /\ pc = "sleep"
    /\ i' = i + 1
    /\ sleeps' = sleeps + 1
    /\ pc' = "for"
    /\ UNCHANGED <<files, dirExists, order, locked, reports, info, mode, interval, running,
                   signalled, finalLogged, lateScans>>

\* line 190 without its test of running
TestPeriodicUnconditional ==
    /\ pc = "after"
    /\ Len(reports) < MaxScans
    /\ pc' = "log"
    /\ UNCHANGED <<files, dirExists, order, locked, reports, info, mode, interval, running, i,
                   sleeps, signalled, finalLogged, lateScans>>

\* line 190: running is true, the body of the if goes on to the log of line 191
TestPeriodic ==
    /\ pc = "after" /\ running
    /\ Len(reports) < MaxScans
    /\ pc' = "log"
    /\ UNCHANGED <<files, dirExists, order, locked, reports, info, mode, interval, running, i,
                   sleeps, signalled, finalLogged, lateScans>>

\* lines 191-192: the periodic scan is logged and called, whatever running has
\* become since the test of line 190
CallPeriodic ==
    /\ pc = "log"
    /\ pc' = "periodicScan"
    /\ sleeps' = 0
    /\ Called
    /\ UNCHANGED <<files, dirExists, order, locked, reports, info, mode, interval, running,
                   i, signalled, finalLogged>>

\* line 192: the periodic scan returns
PeriodicScan ==
    /\ pc = "periodicScan"
    /\ DoScan
    /\ pc' = "while"
    /\ UNCHANGED <<dirExists, order, locked, info, mode, interval, running, i, sleeps,
                   signalled, finalLogged, lateScans>>

\* line 190 when running is false
SkipScan ==
    /\ pc = "after" /\ ~running
    /\ pc' = "while"
    /\ UNCHANGED <<files, dirExists, order, locked, reports, info, mode, interval, running, i,
                   sleeps, signalled, finalLogged, lateScans>>

\* run_periodic_check returns, to main (line 245) or to the importing program
Return ==
    /\ pc = "return"
    /\ pc' = IF mode = "periodic" THEN "final" ELSE "returned"
    /\ UNCHANGED <<files, dirExists, order, locked, reports, info, mode, interval, running, i,
                   sleeps, signalled, finalLogged, lateScans>>

\* line 249: the message is logged and main returns
LogFinal ==
    /\ pc = "final"
    /\ finalLogged' = TRUE
    /\ pc' = "done"
    /\ UNCHANGED <<files, dirExists, order, locked, reports, info, mode, interval, running, i,
                   sleeps, signalled, lateScans>>

\* a scan that r describes is left after its first k unlinks
Interrupted(r, k) ==
    files' = Restrict(files, DOMAIN files \ {r.unlinks[j] : j \in 1..k})

\* SystemExit and KeyboardInterrupt are no Exception: raised inside
\* scan_and_deduplicate they pass the handlers of lines 101, 149 and 162, and
\* the scan ends where it is, with some of its unlinks done
Interrupt ==
    IF pc \in Scanning
    THEN \E r \in {ScanAndDeduplicate(files, dirExists, locked, order)} :
             \E k \in 0..Len(r.unlinks) : Interrupted(r, k)
    ELSE files' = files

\* lines 203-205, installed by lines 210-212: SIGINT or SIGTERM makes signal_handler
\* call sys.exit(0); neither "except KeyboardInterrupt" (194, 246) nor "except
\* Exception" (101, 149, 162) catches SystemExit, so the interpreter exits.
\* A signal handled inside logger.info of line 249 comes before or after the
\* handlers of the logger have written the message
Signal ==
    /\ mode \in {"once", "periodic"}
    /\ ~Terminated
    /\ Interrupt
    /\ signalled' = pc
    /\ pc' = "exited"
    /\ finalLogged' \in (IF pc = "final" THEN BOOLEAN ELSE {finalLogged})
    /\ UNCHANGED <<dirExists, order, locked, reports, info, mode, interval, running, i,
                   sleeps, lateScans>>

\* line 194: KeyboardInterrupt inside the try of the loop is caught; running
\* is what it was until the handler has called stop()
KeyboardInterruptInLoop ==
    /\ mode = "api"
    /\ pc \in {"for", "test", "sleep", "after", "log", "periodicScan"}
    /\ Interrupt
    /\ pc' = "except"
    /\ UNCHANGED <<dirExists, order, locked, reports, info, mode, interval, running, i,
                   sleeps, signalled, finalLogged, lateScans>>

\* lines 195 and 200: the handler calls stop(), which clears running
HandlerStop ==
    /\ pc = "except"
    /\ running' = FALSE
    /\ pc' = "stopped"
    /\ UNCHANGED <<files, dirExists, order, locked, reports, info, mode, interval, i,
                   sleeps, signalled, finalLogged, lateScans>>

\* lines 201 and 196: stop() logs and returns, and the handler leaves the loop
HandlerBreak ==
    /\ pc = "stopped"
    /\ pc' = "return"
    /\ UNCHANGED <<files, dirExists, order, locked, reports, info, mode, interval, running, i,
                   sleeps, signalled, finalLogged, lateScans>>

\* KeyboardInterrupt outside that try (lines 172-182) or inside its handler
\* (lines 194-196 and 200-201): it leaves run_periodic_check
KeyboardInterruptOutside ==
    /\ mode = "api"
    /\ pc \in {"start", "initialScan", "while", "except", "stopped", "return"}
    /\ Interrupt
    /\ pc' = "raised"
    /\ UNCHANGED <<dirExists, order, locked, reports, info, mode, interval, running, i,
                   sleeps, signalled, finalLogged, lateScans>>

\* lines 198-201: stop() has no guard; the importing program calls it (from its
\* code, a signal handler or another thread) before it calls run_periodic_check,
\* while that runs, or after it
Stop ==
    /\ mode = "api"
    /\ running' = FALSE
    /\ UNCHANGED <<files, dirExists, order, locked, reports, info, mode, interval, pc, i,
                   sleeps, signalled, finalLogged, lateScans>>

\* the steps the thread of control takes by itself
Step ==
    \/ CallOnce
    \/ MainOnce
    \/ CallInitial
    \/ InitialScan
    \/ WhileTest
    \/ ForNext
    \/ ForEnd
    \/ ForTest
    \/ ForBreak
    \/ ForSleep
    \/ TestPeriodic
    \/ CallPeriodic
    \/ PeriodicScan
    \/ SkipScan
    \/ HandlerStop
    \/ HandlerBreak
    \/ Return
    \/ LogFinal

Next ==
    \/ Step
    \/ Signal
    \/ KeyboardInterruptInLoop
    \/ KeyboardInterruptOutside
    \/ Stop

Spec == Init /\ [][Next]_vars

\* a sequential program goes on executing: time.sleep(1) and every statement return
FairSpec == Spec /\ WF_vars(Step)

(***************************************************************************)
(* Properties of get_session_info (SpecInfo).                              *)
(***************************************************************************)
Present(v) == v.t # "absent"

\* the position in fields of the first field of doc that satisfies P, or 0
First(doc, fields, P(_)) ==
    IF \E k \in 1..Len(fields) : P(doc[fields[k]])
    THEN CHOOSE k \in 1..Len(fields) :
             P(doc[fields[k]]) /\ \A j \in 1..(k - 1) : ~P(doc[fields[j]])
    ELSE 0

\* what a returned result has to be when P tells which fields count
TakenFromFirst(f, r, P(_)) ==
    /\ First(f.content.doc, IdFields, P) # 0
    /\ r.session_id = f.content.doc[IdFields[First(f.content.doc, IdFields, P)]]
    /\ (r.timestamp = FromTimestamp(f.mtime)) <=> (First(f.content.doc, TsFields, P) = 0)
    /\ First(f.content.doc, TsFields, P) # 0 =>
           r.timestamp = ParseTimestamp(f.content.doc[TsFields[First(f.content.doc, TsFields, P)]])

Returned == pc = "infoDone" /\ info.timestamp # NoTime

\* C8 (as claimed): a result of get_session_info holds the identifier of the first
\* identifier field present and the timestamp of the first timestamp field
\* present, and holds the modification time exactly when none is present.
C8_FirstPresentField ==
    Returned => TakenFromFirst(files[InfoName], info, Present)

\* C8 (amended): a result of get_session_info holds the identifier of the first
\* identifier field with a truthy value and the timestamp of the first timestamp
\* field with a truthy value, and holds the modification time exactly when no
\* timestamp field has a truthy value.
C8_FirstTruthyField ==
    Returned => TakenFromFirst(files[InfoName], info, Truthy)

\* a result for a document whose first identifier field and first timestamp
\* field are present but empty or null
C8_Witness ==
    /\ Returned
    /\ files[InfoName].content.doc["activeSessionId"] = Str(<<>>)
    /\ files[InfoName].content.doc["sessionId"] = S2
    /\ files[InfoName].content.doc["id"] = S1
    /\ files[InfoName].content.doc["updatedAt"] = Null
    /\ files[InfoName].content.doc["timestamp"] = Str(<<"T2", ".", "5", "Z">>)
    /\ files[InfoName].content.doc["createdAt"] = Str(<<"T1">>)

(***************************************************************************)
(* Properties of the program (Spec, FairSpec).                             *)
(***************************************************************************)
InLoop == pc \in {"while", "for", "test", "sleep", "after", "log", "periodicScan"}

\* C6 (as claimed): once a signal was handled while the program started by main
\* was in run_periodic_check, the stop flag is false.
C6_SignalClearsRunning ==
    (mode = "periodic" /\ signalled \in {"initialScan", "while", "for", "test", "sleep",
                                         "after", "log", "periodicScan", "return"})
        => running = FALSE

\* a call of scan_and_deduplicate begins, returns
ScanStarts == pc \notin Scanning /\ pc' \in Scanning
ScanReturns == Len(reports') > Len(reports)

\* C9: a scan of a directory that does not exist logs one error, reads and
\* unlinks nothing and returns; run_periodic_check then goes on with its loop
\* and, unless it is stopped or interrupted, scans again.
C9_MissingDirectory ==
    /\ [](\A k \in 1..Len(reports) :
            ~reports[k].existed =>
                /\ reports[k].log = <<Err("nodir", NoFile)>>
                /\ reports[k].opened = {}
                /\ reports[k].removed = {}
                /\ DOMAIN files = DOMAIN reports[k].before)
    /\ [][(~dirExists /\ mode # "once" /\ ScanReturns) =>
            (pc' = "while" /\ running' = running)]_vars
    /\ (~dirExists /\ mode # "once" /\ Len(reports) = 1 /\ pc = "while")
          ~> (Len(reports) = 2 \/ ~running \/ Terminated)

\* main without --once scanned a missing directory a second time, a minute later
C9_Witness ==
    /\ ~dirExists
    /\ mode = "periodic" /\ interval = 1
    /\ Len(reports) = 2
    /\ ~reports[1].existed /\ ~reports[2].existed
    /\ pc = "while" /\ running

\* the positions of run_periodic_check after its first scan
AfterFirstScan ==
    {"while", "for", "test", "sleep", "after", "log", "periodicScan", "except", "stopped",
     "return"}

\* C10 (as claimed): --once makes one scan and finishes; run_periodic_check
\* makes its first scan at once, starts every further scan after
\* interval_minutes * 60 sleeps of one second with running still true, and once
\* running is false it stays false, no further scan is started and the loop ends.
C10_ScanSchedule ==
    /\ [](mode = "once" =>
            /\ Len(reports) <= 1
            /\ pc \in {"final", "done"} => Len(reports) = 1)
    /\ [][(mode = "once" /\ ScanStarts) => pc = "start"]_vars
    /\ (mode = "once") ~> Terminated
    /\ [](mode \in {"periodic", "api"} =>
            /\ Len(reports) = 0 => (pc \in {"start", "initialScan", "exited", "raised"}
                                     /\ sleeps = 0)
            /\ pc \in AfterFirstScan => Len(reports) >= 1)
    /\ [][(mode \in {"periodic", "api"} /\ ScanStarts) =>
            \/ pc = "start"
            \/ Len(reports) >= 1 /\ sleeps = interval * SecondsPerMinute /\ running]_vars
    /\ [][~running => (~running' /\ (ScanStarts => Len(reports) = 0 /\ pc = "start"))]_vars
    /\ ~running ~> Terminated

\* C10 (amended): --once makes one scan and finishes; run_periodic_check makes
\* its first scan at once; every sleep follows a test of line 186 that found
\* running true; every further scan follows a test of line 190 that found
\* running true after interval_minutes * 60 sleeps of one second; once running
\* is false it stays false, no test of line 186 or 190 passes any more, at most
\* one scan is called (the first scan, or the periodic scan whose test of line
\* 190 had passed before), and the loop ends.
C10_BoundedShutdown ==
    /\ [](mode = "once" =>
            /\ Len(reports) <= 1
            /\ pc \in {"final", "done"} => Len(reports) = 1)
    /\ [][(mode = "once" /\ ScanStarts) => pc = "start"]_vars
    /\ (mode = "once") ~> Terminated
    /\ [](mode \in {"periodic", "api"} =>
            /\ Len(reports) = 0 => (pc \in {"start", "initialScan", "exited", "raised"}
                                     /\ sleeps = 0)
            /\ pc \in AfterFirstScan => Len(reports) >= 1)
    /\ [][(mode \in {"periodic", "api"} /\ ScanStarts) =>
            \/ pc = "start"
            \/ pc = "log" /\ Len(reports) >= 1 /\ sleeps = interval * SecondsPerMinute]_vars
    /\ [][(pc # "log" /\ pc' = "log") =>
            (pc = "after" /\ running /\ sleeps = interval * SecondsPerMinute)]_vars
    /\ [][(pc # "sleep" /\ pc' = "sleep") => (pc = "test" /\ running)]_vars
    /\ [][sleeps' # sleeps => (sleeps' = 0 \/ (pc = "sleep" /\ sleeps' = sleeps + 1))]_vars
    /\ [][~running => ~running']_vars
    /\ [](lateScans <= 1)
    /\ [][(~running /\ ScanStarts) => pc \in {"start", "log"}]_vars
    /\ ~running ~> Terminated

\* the loop slept a whole interval and found running true at line 190, stop()
\* was called before the scan of line 192, which was made all the same, and
\* the loop ended after it
C10_Witness ==
    /\ mode = "api" /\ interval = 1
    /\ Len(reports) = 2
    /\ lateScans = 1
    /\ ~running
    /\ pc = "returned"

====
